---------------------------- MODULE Spec2Model ----------------------------
(***************************************************************************)
(* Model of the two IO.puts commenting scripts:                            *)
(*   comment_io_puts_final.py  (variant "final": strict-prefix policy,     *)
(*                              multi-line spans)                          *)
(*   comment_io_puts_smart.py  (variant "smart": contains-anywhere policy, *)
(*                              line by line)                              *)
(* A line is a sequence of tokens.  The tokens are the character groups    *)
(* the scripts look at: the target text "IO.puts", "(", ")", the triple    *)
(* quote, "#", a blank, the line terminator, ":ok" (the token the smart    *)
(* script writes) and "x", which stands for any other character.           *)
(***************************************************************************)
EXTENDS Integers, Sequences, FiniteSets

VARIABLES
    variant,        \* which script runs: "final" or "smart"
    disk,           \* the file's contents, a sequence of lines
    before,         \* the file's contents when the current run of main began
    run,            \* number of the current run of the script on the file
    wrote,          \* the current run opened the file for writing
    pc,             \* position: "main", "loop", "inner", "done"
    lines,          \* process_file: lines = f.readlines()
    new_lines,      \* process_file: new_lines (final) / modified_lines (smart)
    i,              \* process_file: i (0-based, as in the source)
    paren_count,    \* final: paren_count
    in_heredoc,     \* final: in_heredoc
    modified,       \* final: modified
    span_of         \* history: for each emitted line, the 1-based index of the
                    \* start line of the span it was emitted in, 0 if none

vars == <<variant, disk, before, run, wrote, pc, lines, new_lines, i,
          paren_count, in_heredoc, modified, span_of>>

----------------------------------------------------------------------------
(* Bounds of the checked inputs *)

MaxLen == 5      \* tokens before the terminator in an exhaustively drawn line
MaxLines == 4    \* lines in a document drawn from Pool
MaxRuns == 2     \* runs of the script over the same file

----------------------------------------------------------------------------
(* Tokens *)

IOPUTS == "IO.puts"
LP == "("
RP == ")"
TQ == "\"\"\""
HASH == "#"
SP == " "
NL == "\n"
OK == ":ok"
X == "x"

Alphabet == {IOPUTS, LP, RP, SP, X}

IsSpace(t) == t \in {SP, NL}

\* the lines of at most MaxLen tokens over Alphabet, each with its terminator
ShortLines ==
    UNION { { b \o <<NL>> : b \in [1..n -> Alphabet] } : n \in 0..MaxLen }

\* lines that multi-line documents are made of
Pool ==
    { <<IOPUTS, LP, NL>>,
      <<IOPUTS, LP, TQ, NL>>,
      <<TQ, RP, NL>>,
      <<RP, NL>>,
      <<X, NL>>,
      <<SP, SP, IOPUTS, LP, TQ, X, TQ, RP, NL>>,
      <<TQ, NL>>,
      <<SP, X, LP, NL>> }

\* the example documents: `  IO.puts("hello")`, `  x -> IO.puts("y")` and
\* the three lines `IO.puts(` / `  "hello"` / `)`
Examples ==
    { << <<SP, SP, IOPUTS, LP, X, RP, NL>> >>,
      << <<SP, SP, X, SP, X, SP, IOPUTS, LP, X, RP, NL>> >>,
      << <<IOPUTS, LP, NL>>, <<SP, SP, X, NL>>, <<RP, NL>> >> }

Documents ==
    { <<l>> : l \in ShortLines }
        \cup UNION { [1..n -> Pool] : n \in 0..MaxLines }
        \cup Examples

----------------------------------------------------------------------------
(* String functions of the scripts, on token sequences *)

\* line.count(t)
RECURSIVE Count(_, _)
Count(s, t) ==
    IF s = <<>> THEN 0
    ELSE (IF Head(s) = t THEN 1 ELSE 0) + Count(Tail(s), t)

\* t in line
Contains(s, t) == \E k \in 1..Len(s) : s[k] = t

\* number of leading whitespace tokens: what ^\s* matches
RECURSIVE LeadSpace(_)
LeadSpace(s) ==
    IF s = <<>> \/ ~IsSpace(Head(s)) THEN 0 ELSE 1 + LeadSpace(Tail(s))

\* number of trailing whitespace tokens
RECURSIVE TrailSpace(_)
TrailSpace(s) ==
    IF s = <<>> \/ ~IsSpace(s[Len(s)]) THEN 0
    ELSE 1 + TrailSpace(SubSeq(s, 1, Len(s) - 1))

\* line.lstrip()
LStrip(s) == SubSeq(s, LeadSpace(s) + 1, Len(s))

\* line.strip()
Strip(s) ==
    LET t == LStrip(s) IN SubSeq(t, 1, Len(t) - TrailSpace(t))

\* variant of IsStart: the pattern without \s* between IO.puts and "("
IsStartLiteral(line) ==
    LET s == LStrip(Strip(line)) IN
        Len(s) >= 2 /\ Head(s) = IOPUTS /\ Head(Tail(s)) = LP

\* final: re.match(r'^\s*IO\.puts\s*\(', line.strip())
IsStart(line) ==
    LET s == LStrip(Strip(line)) IN
        /\ s # <<>>
        /\ Head(s) = IOPUTS
        /\ LET r == LStrip(Tail(s)) IN r # <<>> /\ Head(r) = LP

\* variant of Continue: "and" in place of "or"
ContinueBoth(pcount, heredoc) == pcount > 0 /\ heredoc

\* final: paren_count > 0 or in_heredoc
Continue(pcount, heredoc) == pcount > 0 \/ heredoc

\* final: line.count('(') - line.count(')')
ParenDelta(line) == Count(line, LP) - Count(line, RP)

\* final: '"""' in line and line.count('"""') % 2 == 1
OddQuotes(line) == Contains(line, TQ) /\ Count(line, TQ) % 2 = 1

\* final: '# ' + line
Commented(line) == <<HASH, SP>> \o line

\* smart: re.match(r'^\s*IO\.puts', line)
IsStandalone(line) ==
    LET s == LStrip(line) IN s # <<>> /\ Head(s) = IOPUTS

\* smart: re.sub(r'^(\s*)IO\.puts', r'\1# IO.puts', line)
CommentCall(line) ==
    LET n == LeadSpace(line) IN
        IF IsStandalone(line)
        THEN SubSeq(line, 1, n) \o <<HASH, SP, IOPUTS>>
                 \o SubSeq(line, n + 2, Len(line))
        ELSE line

\* index of the first ")" of s at or after position k, 0 if there is none
RECURSIVE FirstClose(_, _)
FirstClose(s, k) ==
    IF k > Len(s) THEN 0
    ELSE IF s[k] = RP THEN k
    ELSE FirstClose(s, k + 1)

\* index of the last ")" of s at or after position k, 0 if there is none
RECURSIVE LastClose(_, _)
LastClose(s, k) ==
    IF k > Len(s) THEN 0
    ELSE LET later == LastClose(s, k + 1) IN
             IF later > 0 THEN later ELSE IF s[k] = RP THEN k ELSE 0

\* variant of ReplaceCalls: the greedy pattern IO\.puts\(.*\)
RECURSIVE ReplaceCallsGreedy(_)
ReplaceCallsGreedy(s) ==
    IF s = <<>> THEN <<>>
    ELSE LET c == IF Len(s) >= 2 /\ s[1] = IOPUTS /\ s[2] = LP
                  THEN LastClose(s, 3) ELSE 0
         IN  IF c > 0
             THEN <<OK>> \o ReplaceCallsGreedy(SubSeq(s, c + 1, Len(s)))
             ELSE <<Head(s)>> \o ReplaceCallsGreedy(Tail(s))

\* smart: re.sub(r'IO\.puts\([^)]*\)', ':ok', line)
RECURSIVE ReplaceCalls(_)
ReplaceCalls(s) ==
    IF s = <<>> THEN <<>>
    ELSE LET c == IF Len(s) >= 2 /\ s[1] = IOPUTS /\ s[2] = LP
                  THEN FirstClose(s, 3) ELSE 0
         IN  IF c > 0
             THEN <<OK>> \o ReplaceCalls(SubSeq(s, c + 1, Len(s)))
             ELSE <<Head(s)>> \o ReplaceCalls(Tail(s))

\* smart: re.sub(r'^(\s*)', r'\1# ', modified_line)
CommentIndented(line) ==
    LET n == LeadSpace(line) IN
        SubSeq(line, 1, n) \o <<HASH, SP>> \o SubSeq(line, n + 1, Len(line))

\* smart: the line written for an embedded match
EmbeddedLine(line) ==
    LET modified_line == ReplaceCalls(line) IN
        IF Contains(modified_line, IOPUTS)
        THEN CommentIndented(modified_line)
        ELSE modified_line

----------------------------------------------------------------------------
(* The scripts *)

Init ==
    /\ variant \in {"final", "smart"}
    /\ disk \in Documents
    /\ before = disk
    /\ run = 1
    /\ wrote = FALSE
    /\ pc = "main"
    /\ lines = <<>>
    /\ new_lines = <<>>
    /\ i = 0
    /\ paren_count = 0
    /\ in_heredoc = FALSE
    /\ modified = FALSE
    /\ span_of = <<>>

\* main: 'IO.puts' in content is false, the file is not processed
MainSkip ==
    /\ pc = "main"
    /\ ~\E k \in 1..Len(disk) : Contains(disk[k], IOPUTS)
    /\ pc' = "done"
    /\ UNCHANGED <<variant, disk, before, run, wrote, lines, new_lines, i,
                   paren_count, in_heredoc, modified, span_of>>

\* main: 'IO.puts' in content, process_file is called and reads the file
MainProcess ==
    /\ pc = "main"
    /\ \E k \in 1..Len(disk) : Contains(disk[k], IOPUTS)
    /\ lines' = disk
    /\ new_lines' = <<>>
    /\ i' = 0
    /\ modified' = FALSE
    /\ span_of' = <<>>
    /\ pc' = "loop"
    /\ UNCHANGED <<variant, disk, before, run, wrote, paren_count, in_heredoc>>

\* variant of AfterSpanLine: the inner loop without its i < len(lines) test
AfterSpanLineNoEnd(idx, pcount, heredoc) ==
    IF Continue(pcount, heredoc) THEN "inner" ELSE "loop"

\* where the inner while loop of the final script stands after an iteration
AfterSpanLine(idx, pcount, heredoc) ==
    IF idx < Len(lines) /\ Continue(pcount, heredoc) THEN "inner" ELSE "loop"

\* final: the outer loop finds a statement start
FinalStart ==
    /\ variant = "final"
    /\ pc = "loop"
    /\ i < Len(lines)
    /\ LET line == lines[i + 1] IN
        /\ IsStart(line)
        /\ modified' = TRUE
        /\ new_lines' = Append(new_lines, Commented(line))
        /\ i' = i + 1
        /\ paren_count' = ParenDelta(line)
        /\ in_heredoc' = OddQuotes(line)
        /\ span_of' = Append(span_of, i + 1)
        /\ pc' = AfterSpanLine(i + 1, ParenDelta(line), OddQuotes(line))
    /\ UNCHANGED <<variant, disk, before, run, wrote, lines>>

\* variant of FinalCont: the continuation line is appended without '# '
FinalContUnprefixed ==
    /\ variant = "final"
    /\ pc = "inner"
    /\ LET line == lines[i + 1]
           pcount == paren_count + ParenDelta(line)
           heredoc == IF OddQuotes(line) THEN ~in_heredoc ELSE in_heredoc
       IN
        /\ new_lines' = Append(new_lines, line)
        /\ paren_count' = pcount
        /\ in_heredoc' = heredoc
        /\ i' = i + 1
        /\ span_of' = Append(span_of, span_of[Len(span_of)])
        /\ pc' = AfterSpanLine(i + 1, pcount, heredoc)
    /\ UNCHANGED <<variant, disk, before, run, wrote, lines, modified>>

\* final: one iteration of the inner loop
FinalCont ==
    /\ variant = "final"
    /\ pc = "inner"
    /\ LET line == lines[i + 1]
           pcount == paren_count + ParenDelta(line)
           heredoc == IF OddQuotes(line) THEN ~in_heredoc ELSE in_heredoc
       IN
        /\ new_lines' = Append(new_lines, Commented(line))
        /\ paren_count' = pcount
        /\ in_heredoc' = heredoc
        /\ i' = i + 1
        /\ span_of' = Append(span_of, span_of[Len(span_of)])
        /\ pc' = AfterSpanLine(i + 1, pcount, heredoc)
    /\ UNCHANGED <<variant, disk, before, run, wrote, lines, modified>>

\* final: a regular line
FinalPass ==
    /\ variant = "final"
    /\ pc = "loop"
    /\ i < Len(lines)
    /\ ~IsStart(lines[i + 1])
    /\ new_lines' = Append(new_lines, lines[i + 1])
    /\ i' = i + 1
    /\ span_of' = Append(span_of, 0)
    /\ UNCHANGED <<variant, disk, before, run, wrote, pc, lines, paren_count,
                   in_heredoc, modified>>

\* variant of FinalFinish: the file is written whether modified or not
FinalFinishAlways ==
    /\ variant = "final"
    /\ pc = "loop"
    /\ i >= Len(lines)
    /\ disk' = new_lines
    /\ wrote' = TRUE
    /\ pc' = "done"
    /\ UNCHANGED <<variant, before, run, lines, new_lines, i, paren_count,
                   in_heredoc, modified, span_of>>

\* final: the loop is over, the file is written if modified
FinalFinish ==
    /\ variant = "final"
    /\ pc = "loop"
    /\ i >= Len(lines)
    /\ IF modified
       THEN disk' = new_lines /\ wrote' = TRUE
       ELSE UNCHANGED <<disk, wrote>>
    /\ pc' = "done"
    /\ UNCHANGED <<variant, before, run, lines, new_lines, i, paren_count,
                   in_heredoc, modified, span_of>>

\* smart: a line that starts with IO.puts
SmartStandalone ==
    /\ variant = "smart"
    /\ pc = "loop"
    /\ i < Len(lines)
    /\ Contains(lines[i + 1], IOPUTS)
    /\ IsStandalone(lines[i + 1])
    /\ new_lines' = Append(new_lines, CommentCall(lines[i + 1]))
    /\ i' = i + 1
    /\ span_of' = Append(span_of, i + 1)
    /\ UNCHANGED <<variant, disk, before, run, wrote, pc, lines, paren_count,
                   in_heredoc, modified>>

\* smart: a line with IO.puts inside it
SmartEmbedded ==
    /\ variant = "smart"
    /\ pc = "loop"
    /\ i < Len(lines)
    /\ Contains(lines[i + 1], IOPUTS)
    /\ ~IsStandalone(lines[i + 1])
    /\ new_lines' = Append(new_lines, EmbeddedLine(lines[i + 1]))
    /\ i' = i + 1
    /\ span_of' = Append(span_of, 0)
    /\ UNCHANGED <<variant, disk, before, run, wrote, pc, lines, paren_count,
                   in_heredoc, modified>>

\* variant of SmartPass: the else branch that appends the line is missing
SmartPassDropsLine ==
    /\ variant = "smart"
    /\ pc = "loop"
    /\ i < Len(lines)
    /\ ~Contains(lines[i + 1], IOPUTS)
    /\ i' = i + 1
    /\ span_of' = Append(span_of, 0)
    /\ UNCHANGED <<variant, disk, before, run, wrote, pc, lines, new_lines,
                   paren_count, in_heredoc, modified>>

\* smart: a line without IO.puts
SmartPass ==
    /\ variant = "smart"
    /\ pc = "loop"
    /\ i < Len(lines)
    /\ ~Contains(lines[i + 1], IOPUTS)
    /\ new_lines' = Append(new_lines, lines[i + 1])
    /\ i' = i + 1
    /\ span_of' = Append(span_of, 0)
    /\ UNCHANGED <<variant, disk, before, run, wrote, pc, lines, paren_count,
                   in_heredoc, modified>>

\* smart: the loop is over, the file is written
SmartFinish ==
    /\ variant = "smart"
    /\ pc = "loop"
    /\ i >= Len(lines)
    /\ disk' = new_lines
    /\ wrote' = TRUE
    /\ pc' = "done"
    /\ UNCHANGED <<variant, before, run, lines, new_lines, i, paren_count,
                   in_heredoc, modified, span_of>>

\* the script is run again on the file it left
Rerun ==
    /\ pc = "done"
    /\ run < MaxRuns
    /\ run' = run + 1
    /\ before' = disk
    /\ wrote' = FALSE
    /\ pc' = "main"
    /\ lines' = <<>>
    /\ new_lines' = <<>>
    /\ i' = 0
    /\ paren_count' = 0
    /\ in_heredoc' = FALSE
    /\ modified' = FALSE
    /\ span_of' = <<>>
    /\ UNCHANGED <<variant, disk>>

Next ==
    \/ MainSkip
    \/ MainProcess
    \/ FinalStart
    \/ FinalCont
    \/ FinalPass
    \/ FinalFinish
    \/ SmartStandalone
    \/ SmartEmbedded
    \/ SmartPass
    \/ SmartFinish
    \/ Rerun

Spec == Init /\ [][Next]_vars

\* comment_io_puts_final.py alone, one run over the file
InitFinal == Init /\ variant = "final"

NextFinal ==
    \/ MainSkip
    \/ MainProcess
    \/ FinalStart
    \/ FinalCont
    \/ FinalPass
    \/ FinalFinish

SpecFinal == InitFinal /\ [][NextFinal]_vars

----------------------------------------------------------------------------
(* Vocabulary of the properties *)

Done == pc = "done"

\* the current run called process_file (main found the target text)
Ran == Done /\ \E k \in 1..Len(before) : Contains(before[k], IOPUTS)

Scanning == pc \in {"loop", "inner"}

\* sum of the parenthesis deltas of lines s..k of doc
RECURSIVE Balance(_, _, _)
Balance(doc, s, k) ==
    IF k < s THEN 0 ELSE Balance(doc, s, k - 1) + ParenDelta(doc[k])

\* a triple-quoted block is open after lines s..k of doc
QuoteOpen(doc, s, k) ==
    Cardinality({ j \in s..k : Count(doc[j], TQ) % 2 = 1 }) % 2 = 1

\* the statement that starts at line s is still open after line k
OpenAfter(doc, s, k) == Balance(doc, s, k) > 0 \/ QuoteOpen(doc, s, k)

\* line k was emitted as part of a span
InSpan(k) == k >= 1 /\ k <= Len(span_of) /\ span_of[k] # 0

\* line k was examined by the match detector and classified as a start
TopStart(k) == k >= 1 /\ k <= Len(span_of) /\ span_of[k] = k

\* last line of the span that starts at s, among the lines emitted so far
SpanEnd(s) ==
    CHOOSE e \in s..Len(span_of) :
        /\ \A k \in s..e : span_of[k] = s
        /\ e = Len(span_of) \/ span_of[e + 1] # s

\* the detector's pattern, position by position: IO.puts, blanks, "("
MatchesCall(line) ==
    LET s == LStrip(line) IN
        /\ Len(s) >= 2
        /\ s[1] = IOPUTS
        /\ \E p \in 2..Len(s) :
              /\ s[p] = LP
              /\ \A q \in 2..(p - 1) : s[q] = SP

\* IO.puts followed immediately by "("
MatchesCallLiteral(line) ==
    LET s == LStrip(line) IN Len(s) >= 2 /\ s[1] = IOPUTS /\ s[2] = LP

\* the leftmost IO.puts( ... ) of s replaced by :ok; s if there is none
ReplaceFirst(s) ==
    LET starts == { p \in 1..Len(s) :
                      /\ s[p] = IOPUTS
                      /\ p < Len(s)
                      /\ s[p + 1] = LP
                      /\ \E c \in (p + 2)..Len(s) : s[c] = RP }
    IN  IF starts = {} THEN s
        ELSE LET p == CHOOSE a \in starts : \A b \in starts : a <= b
                 c == CHOOSE a \in (p + 2)..Len(s) :
                          s[a] = RP /\ \A b \in (p + 2)..(a - 1) : s[b] # RP
             IN  SubSeq(s, 1, p - 1) \o <<OK>> \o SubSeq(s, c + 1, Len(s))

\* every IO.puts( ... ) of s replaced by :ok, one replacement at a time
RECURSIVE ReplaceEach(_)
ReplaceEach(s) ==
    IF ReplaceFirst(s) = s THEN s ELSE ReplaceEach(ReplaceFirst(s))

\* indentation, then the marker and a blank, then the rest of the line
MarkerAfterIndent(line) ==
    LET n == Len(line) - Len(LStrip(line)) IN
        [k \in 1..(Len(line) + 2) |->
            IF k <= n THEN line[k]
            ELSE IF k = n + 1 THEN HASH
            ELSE IF k = n + 2 THEN SP
            ELSE line[k - 2]]

\* the policy's start predicate for a full-line statement
StartsStatement(line) ==
    IF variant = "final" THEN IsStart(line) ELSE IsStandalone(line)

\* the policy's match predicate
Matches(line) ==
    IF variant = "final" THEN IsStart(line) ELSE Contains(line, IOPUTS)

----------------------------------------------------------------------------
(* C1 *)

\* C1: when the script is run a second time on the file the first run left,
\* no line of that file is a match under the variant's policy and the file
\* the second run leaves equals the file it read, line for line.
C1_SecondRunDetectsNothing ==
    (run = 2 /\ Done) =>
        /\ \A k \in 1..Len(before) : ~Matches(before[k])
        /\ disk = before

----------------------------------------------------------------------------
(* C2 *)

\* first line of the document that starts a full-line statement, 0 if none
FirstStatement(doc) ==
    IF \E k \in 1..Len(doc) : StartsStatement(doc[k])
    THEN CHOOSE k \in 1..Len(doc) :
             /\ StartsStatement(doc[k])
             /\ \A j \in 1..(k - 1) : ~StartsStatement(doc[j])
    ELSE 0

\* C2: under either policy, every line of the statement that begins at the
\* first standalone start line (the start line and each following line
\* reached while the parenthesis balance is positive or a triple-quoted
\* block is open) is written with the comment marker in front.
C2_WholeSpanCommented ==
    (Ran /\ run = 1) =>
        LET s == FirstStatement(before) IN
            \A k \in 1..Len(before) :
                (/\ s # 0
                 /\ s <= k
                 /\ \A j \in s..(k - 1) : OpenAfter(before, s, j))
                    => \/ disk[k] = Commented(before[k])
                       \/ disk[k] = MarkerAfterIndent(before[k])

----------------------------------------------------------------------------
(* C3 *)

\* C3: under the strict-prefix policy the file left by a run has as many
\* lines as the file read, and its line k is line k of the file read,
\* unchanged when line k is in no span and with "# " in front when it is in
\* a span; a line inside a span that looks like a start is in the span of the
\* earlier start and carries the prefix once.
C3_EachLineOnceInOrder ==
    (variant = "final" /\ Done) =>
        /\ Len(disk) = Len(before)
        /\ Ran => (Len(new_lines) = Len(lines) /\ Len(span_of) = Len(lines))
        /\ \A k \in 1..Len(before) :
              /\ ~InSpan(k) => disk[k] = before[k]
              /\ InSpan(k) => disk[k] = <<HASH, SP>> \o before[k]
              /\ InSpan(k) =>
                    /\ span_of[k] <= k
                    /\ TopStart(span_of[k])
                    /\ \A j \in span_of[k]..k : span_of[j] = span_of[k]

\* a start-like line was swallowed by the span of an earlier start
C3_Witness ==
    /\ variant = "final"
    /\ Done
    /\ run = 1
    /\ \E k \in 2..Len(before) :
          /\ IsStart(before[k])
          /\ InSpan(k)
          /\ span_of[k] < k
          /\ disk[k] = Commented(before[k])
    /\ \E k \in 1..Len(before) : ~InSpan(k) /\ disk[k] = before[k]

----------------------------------------------------------------------------
(* C4 *)

\* C4: under both variants the file left by a run has as many lines as the
\* file read; while process_file scans, one line has been emitted for each
\* line consumed.
C4_LineCountPreserved ==
    /\ Scanning => (Len(new_lines) = i /\ i <= Len(lines))
    /\ Done => Len(disk) = Len(before)
    /\ Ran => (Len(new_lines) = Len(lines) /\ Len(lines) = Len(before))

\* a final run ended inside a span that was still open at the end of the file
C4_Witness ==
    /\ variant = "final"
    /\ Ran
    /\ wrote
    /\ Len(before) >= 3
    /\ InSpan(Len(before))
    /\ Continue(paren_count, in_heredoc)
    /\ Len(disk) = Len(before)

----------------------------------------------------------------------------
(* C5 *)

\* C5: under the strict-prefix policy a start line with balanced parentheses
\* and no open triple-quoted block is a span of one line, and it is written
\* as its indentation, then "# ", then its content.
C5_BalancedLineKeepsIndent ==
    (variant = "final" /\ Ran /\ run = 1) =>
        \A k \in 1..Len(lines) :
            (TopStart(k) /\ ParenDelta(lines[k]) = 0 /\ ~OddQuotes(lines[k]))
                => /\ k < Len(lines) => span_of[k + 1] # k
                   /\ new_lines[k] = MarkerAfterIndent(lines[k])

----------------------------------------------------------------------------
(* C6 *)

\* C6 (as stated): the strict-prefix detector classifies a line as a start
\* exactly when, leading whitespace aside, it begins with IO.puts followed
\* immediately by "(".
C6_StartIffLiteralCall ==
    (variant = "final" /\ Ran) =>
        \A k \in 1..Len(lines) :
            (span_of[k] \in {0, k}) =>
                (TopStart(k) <=> MatchesCallLiteral(lines[k]))

\* C6 (amended): the strict-prefix detector classifies a line as a start
\* exactly when, leading whitespace aside, it begins with IO.puts, then any
\* number of blanks, then "("; a line with anything else between IO.puts and
\* "(", or with IO.puts only further right, is not a start.
C6_StartIffCallAfterBlanks ==
    (variant = "final" /\ Ran) =>
        \A k \in 1..Len(lines) :
            (span_of[k] \in {0, k}) =>
                (TopStart(k) <=> MatchesCall(lines[k]))

\* a line with a blank between IO.puts and "(" was taken as a start
C6_Witness ==
    /\ variant = "final"
    /\ Ran
    /\ run = 1
    /\ \E k \in 1..Len(lines) :
          /\ TopStart(k)
          /\ MatchesCall(lines[k])
          /\ ~MatchesCallLiteral(lines[k])
          /\ new_lines[k] = Commented(lines[k])

----------------------------------------------------------------------------
(* C7 *)

\* C7: a run opens the file for writing only if a line of it is a match; the
\* strict-prefix variant writes exactly when some line is a statement start;
\* a file that is not written is left as it was; and under both variants a
\* file without the target text is never written.
C7_WrittenOnlyOnMatch ==
    /\ wrote => \E k \in 1..Len(before) : Matches(before[k])
    /\ (variant = "final" /\ Done) =>
          (wrote <=> \E k \in 1..Len(before) : MatchesCall(before[k]))
    /\ ~wrote => disk = before
    /\ (\A k \in 1..Len(before) : ~Contains(before[k], IOPUTS)) =>
          (~wrote /\ disk = before)

\* a final run on a file that has the target text but no statement start
C7_Witness ==
    /\ variant = "final"
    /\ Ran
    /\ run = 1
    /\ ~wrote
    /\ ~modified
    /\ disk = before
    /\ new_lines = lines

----------------------------------------------------------------------------
(* C8 *)

\* the line is an embedded match of the contains-anywhere policy
Embedded(line) == Contains(line, IOPUTS) /\ ~IsStandalone(line)

\* C8 (as stated): an embedded line is written with its call, up to the first
\* ")", replaced by :ok and nothing else changed; if the target text is still
\* on the line after that, the line as read is written with the comment
\* marker in front instead.
C8_EmbeddedCallOrWholeLine ==
    (variant = "smart" /\ Ran /\ run = 1) =>
        \A k \in 1..Len(lines) :
            Embedded(lines[k]) =>
                new_lines[k] =
                    IF Contains(ReplaceFirst(lines[k]), IOPUTS)
                    THEN MarkerAfterIndent(lines[k])
                    ELSE ReplaceFirst(lines[k])

\* C8 (amended): an embedded line is written with every call on it that has
\* a closing ")" on the line replaced, up to its first ")", by :ok and nothing
\* else changed, without a comment marker; exactly when the target text is
\* still on the line after these replacements, the line is written with the
\* replacements made and with "# " put after its indentation.
C8_EmbeddedReplaceThenComment ==
    (variant = "smart" /\ Ran /\ run = 1) =>
        \A k \in 1..Len(lines) :
            Embedded(lines[k]) =>
                LET r == ReplaceEach(lines[k]) IN
                    /\ ~Contains(r, IOPUTS) => new_lines[k] = r
                    /\ Contains(r, IOPUTS) =>
                          new_lines[k] = MarkerAfterIndent(r)
                    /\ (new_lines[k] = MarkerAfterIndent(r))
                          <=> Contains(r, IOPUTS)

\* an embedded call was replaced by :ok and the line got no comment marker
C8_Witness ==
    /\ variant = "smart"
    /\ Ran
    /\ run = 1
    /\ lines = << <<SP, SP, X, SP, X, SP, IOPUTS, LP, X, RP, NL>> >>
    /\ new_lines = << <<SP, SP, X, SP, X, SP, OK, NL>> >>
    /\ disk = new_lines

----------------------------------------------------------------------------
(* C9 *)

\* C9: in the strict-prefix variant, after each line of a span that starts
\* at line s the counter is the sum of the parenthesis deltas of the lines
\* from s on and the flag is the parity of the lines from s on with an odd
\* number of triple quotes, whatever came before s; the next line is taken
\* into the span exactly when the counter is positive or the flag is set;
\* and the four lines IO.puts(""" / x / x / """) form one span.
C9_SpanStopRule ==
    (variant = "final" /\ (Scanning \/ Done) /\ Len(span_of) > 0) =>
        /\ InSpan(i) =>
              /\ paren_count = Balance(lines, span_of[i], i)
              /\ in_heredoc = QuoteOpen(lines, span_of[i], i)
        /\ \A k \in 1..Len(span_of) :
              InSpan(k) =>
                  /\ \A j \in span_of[k]..(k - 1) :
                        OpenAfter(lines, span_of[k], j)
                  /\ (k < Len(span_of) /\ OpenAfter(lines, span_of[k], k))
                        => span_of[k + 1] = span_of[k]
                  /\ (Scanning /\ k = Len(span_of) /\ k < Len(lines)) =>
                        (pc = "inner" <=> OpenAfter(lines, span_of[k], k))
        /\ (Done /\ lines = << <<IOPUTS, LP, TQ, NL>>, <<X, NL>>, <<X, NL>>,
                               <<TQ, RP, NL>> >>)
              => span_of = <<1, 1, 1, 1>>

\* the triple-quoted case has been scanned, and so has a document in which a
\* second span starts after a first one left the counter below zero
C9_Witness ==
    /\ variant = "final"
    /\ Done
    /\ run = 1
    /\ \/ /\ lines = << <<IOPUTS, LP, TQ, NL>>, <<X, NL>>, <<X, NL>>,
                        <<TQ, RP, NL>> >>
          /\ span_of = <<1, 1, 1, 1>>
          /\ paren_count = 0
          /\ ~in_heredoc
       \/ /\ Len(lines) = 4
          /\ span_of = <<1, 1, 1, 4>>
          /\ Balance(lines, 1, 3) < 0
          /\ paren_count = 1

----------------------------------------------------------------------------
(* C10 *)

\* In the strict-prefix variant every step of the scan moves the line
\* index up and never past the end of the document, a scan that has not
\* finished can always take a step, the inner loop never reads past the last
\* line, and a span whose parenthesis or triple-quoted block is never closed
\* runs to the last line with every line from its start written with "# " in
\* front.
C10_ScanState ==
    variant = "final" =>
        /\ pc = "inner" => i < Len(lines)
        /\ Scanning => (0 <= i /\ i <= Len(lines) /\ ENABLED NextFinal)
        /\ Done =>
              \A s \in 1..Len(span_of) :
                  (/\ TopStart(s)
                   /\ \A k \in s..Len(lines) : OpenAfter(lines, s, k))
                      => \A k \in s..Len(lines) :
                            /\ span_of[k] = s
                            /\ disk[k] = Commented(before[k])

C10_ScanStep ==
    (variant = "final" /\ Scanning) =>
        /\ pc' \in {"loop", "inner", "done"}
        /\ pc' = "done" => i = Len(lines)
        /\ pc' # "done" => (i' > i /\ i' <= Len(lines))

\* C10: the scan of the strict-prefix variant always terminates at the end
\* of the file: C10_ScanState holds in every state and every step of the scan
\* is a C10_ScanStep.
C10_TerminatesAtEndOfFile == []C10_ScanState /\ [][C10_ScanStep]_vars

\* a span opened by an unclosed triple quote ran over two more lines to the
\* end of the file
C10_Witness ==
    /\ variant = "final"
    /\ Done
    /\ run = 1
    /\ Len(lines) = 3
    /\ span_of = <<1, 1, 1>>
    /\ in_heredoc
    /\ paren_count <= 0
    /\ \A k \in 1..3 : disk[k] = Commented(before[k])

=============================================================================
